---- MODULE Spec2Model ----
(***************************************************************************)
(* Model of asn1rs' SQL backend: asn1rs-model/src/model/sql/mod.rs.        *)
(*                                                                         *)
(*   Spec      convert_rust_to_sql as a state machine: one step of the     *)
(*             synthesis loop per input definition, one step of the depth  *)
(*             loop per output definition, then the stable sort.           *)
(*   SpecType  the type mapper: RustType::to_sql followed by               *)
(*             SqlType::to_rust on one field type.                         *)
(*                                                                         *)
(* Strings are sequences of one-character strings, so that the name        *)
(* functions can be modelled character by character.                       *)
(***************************************************************************)
EXTENDS Integers, Sequences, FiniteSets, TLC

VARIABLES
    rust_model,     \* the input Model<Rust>::definitions
    definitions,    \* Model<Sql>::definitions, the list being built
    depth,          \* the HashMap<String, usize> of fix_table_declaration_occurrence
    pc,             \* position in convert_rust_to_sql
    i,              \* index of the loop the position is in
    rust_type,      \* type mapper: the RustType given
    sql_type,       \* type mapper: rust_type.to_sql()
    back,           \* type mapper: rust_type.to_sql().to_rust()
    given_name,     \* name mangler: the name given
    mangled,        \* name mangler: sql_definition_name applied once, twice
    column_name,    \* name mangler: sql_column_name(given_name), once applied
    indentation,    \* PrintlnWriter.0, the indentation counter
    stack,          \* the calls of with_increased_indentation that have not returned
    returned,       \* the call of the writer that returned last
    printed,        \* the indentation of the line printed last
    calls           \* how many calls have been made on the writer

vars == <<rust_model, definitions, depth, pc, i, rust_type, sql_type, back,
          given_name, mangled, column_name,
          indentation, stack, returned, printed, calls>>

\* the variables of the PrintlnWriter and of the calls made on it
writer_vars == <<indentation, stack, returned, printed, calls>>

\* the variables of the name mangler on its own
name_vars == <<given_name, mangled, column_name>>

None == [t |-> "None"]

\* no writer is at work: PrintlnWriter::default() and no call made
NoWriter ==
    /\ indentation = 0
    /\ stack = <<>>
    /\ returned = None
    /\ printed = 0
    /\ calls = 0

(***************************************************************************)
(* Characters and strings                                                  *)
(***************************************************************************)
LowerChars == <<"a","b","c","d","e","f","g","h","i","j","k","l","m",
                "n","o","p","q","r","s","t","u","v","w","x","y","z">>

UpperChars == <<"A","B","C","D","E","F","G","H","I","J","K","L","M",
                "N","O","P","Q","R","S","T","U","V","W","X","Y","Z">>

IndexIn(seq, c) == CHOOSE k \in 1..Len(seq) : seq[k] = c

is_ascii_lowercase(c) == \E k \in 1..Len(LowerChars) : LowerChars[k] = c

is_uppercase(c) == \E k \in 1..Len(UpperChars) : UpperChars[k] = c

is_lowercase(c) == is_ascii_lowercase(c)

is_alphabetic(c) == is_uppercase(c) \/ is_lowercase(c)

to_lowercase(c) == IF is_uppercase(c) THEN LowerChars[IndexIn(UpperChars, c)] ELSE c

to_uppercase(c) == IF is_lowercase(c) THEN UpperChars[IndexIn(LowerChars, c)] ELSE c

\* str::eq_ignore_ascii_case
eq_ignore_ascii_case(a, b) ==
    /\ Len(a) = Len(b)
    /\ \A k \in 1..Len(a) : to_lowercase(a[k]) = to_lowercase(b[k])

\* str::trim; the names of the model hold no whitespace but the blank
RECURSIVE trim_start(_)
trim_start(s) == IF s # <<>> /\ Head(s) = " " THEN trim_start(Tail(s)) ELSE s

RECURSIVE trim_end(_)
trim_end(s) ==
    IF s # <<>> /\ s[Len(s)] = " " THEN trim_end(SubSeq(s, 1, Len(s) - 1)) ELSE s

trim(s) == trim_end(trim_start(s))

RECURSIVE Repeat(_, _)
Repeat(s, n) == IF n = 0 THEN <<>> ELSE s \o Repeat(s, n - 1)

(***************************************************************************)
(* Program constants                                                       *)
(***************************************************************************)
FOREIGN_KEY_DEFAULT_COLUMN == <<"i","d">>

TUPLE_LIST_ENTRY_PARENT_COLUMN == <<"l","i","s","t">>

TUPLE_LIST_ENTRY_VALUE_COLUMN == <<"v","a","l","u","e">>

TYPENAME_LENGTH_LIMIT_PSQL == 63

(***************************************************************************)
(* Numbers.  The type mapper only compares range bounds with i16::MAX and  *)
(* i32::MAX, and 64-bit values do not fit the integers of TLC, so a        *)
(* bound is the rank of a value on this line of ascending values: the      *)
(* limits of every width and their neighbours.  Order on ranks is order on *)
(* the values.                                                             *)
(***************************************************************************)
NumLine == <<"i64::MIN", "i32::MIN", "i16::MIN", "i8::MIN", "-1", "0", "1",
             "i8::MAX", "u8::MAX", "i16::MAX", "i16::MAX+1", "u16::MAX",
             "i32::MAX", "i32::MAX+1", "u32::MAX", "i64::MAX", "i64::MAX+1",
             "u64::MAX">>

Num(s) == CHOOSE k \in 1..Len(NumLine) : NumLine[k] = s

\* Range::inclusive(min, max): Range(min, max, false)
Range_inclusive(min, max) == [min |-> min, max |-> max, extensible |-> FALSE]

\* the absent bound of a Range<Option<u64>>: no rank of the line
NoBound == 0

\* Range::none() of Range<Option<u64>>
Range_none == [min |-> NoBound, max |-> NoBound, extensible |-> FALSE]

(***************************************************************************)
(* RustType and SqlType                                                    *)
(***************************************************************************)
IntTags == {"U8", "I8", "U16", "I16", "U32", "I32", "U64", "I64"}

\* the least and greatest value of each integer type
TypeMin(tag) ==
    CASE tag \in {"U8", "U16", "U32", "U64"} -> Num("0")
      [] tag = "I8"  -> Num("i8::MIN")
      [] tag = "I16" -> Num("i16::MIN")
      [] tag = "I32" -> Num("i32::MIN")
      [] tag = "I64" -> Num("i64::MIN")

TypeMax(tag) ==
    CASE tag = "U8"  -> Num("u8::MAX")
      [] tag = "I8"  -> Num("i8::MAX")
      [] tag = "U16" -> Num("u16::MAX")
      [] tag = "I16" -> Num("i16::MAX")
      [] tag = "U32" -> Num("u32::MAX")
      [] tag = "I32" -> Num("i32::MAX")
      [] tag = "U64" -> Num("u64::MAX")
      [] tag = "I64" -> Num("i64::MAX")

RInt(tag, range) == [t |-> tag, range |-> range]

RBool == [t |-> "Bool"]

RNull == [t |-> "Null"]

RString(size, charset) == [t |-> "String", size |-> size, charset |-> charset]

RVecU8(size) == [t |-> "VecU8", size |-> size]

RBitVec(size) == [t |-> "BitVec", size |-> size]

RVec(inner, size, ordering) ==
    [t |-> "Vec", inner |-> inner, size |-> size, ordering |-> ordering]

ROption(inner) == [t |-> "Option", inner |-> inner]

RDefault(inner, value) == [t |-> "Default", inner |-> inner, value |-> value]

RComplex(name, tag) == [t |-> "Complex", name |-> name, tag |-> tag]

SmallInt == [t |-> "SmallInt"]

Integer == [t |-> "Integer"]

BigInt == [t |-> "BigInt"]

Serial == [t |-> "Serial"]

Boolean == [t |-> "Boolean"]

Text == [t |-> "Text"]

ByteArray == [t |-> "ByteArray"]

NullByteArray == [t |-> "NullByteArray"]

BitsReprByByteArrayAndBitsLen == [t |-> "BitsReprByByteArrayAndBitsLen"]

Array(inner) == [t |-> "Array", inner |-> inner]

NotNull(inner) == [t |-> "NotNull", inner |-> inner]

References(table, column, on_delete, on_update) ==
    [t |-> "References", table |-> table, column |-> column,
     on_delete |-> on_delete, on_update |-> on_update]

Cascade == [t |-> "Some", v |-> "Cascade"]

\* SqlType::as_nullable and SqlType::nullable: one NotNull wrapper is taken off
\* a variant of nullable that leaves the NotNull wrapper in place
nullable_keeping(sql) == sql

nullable(sql) == IF sql.t = "NotNull" THEN sql.inner ELSE sql

as_nullable(sql) == nullable(sql)

not_null(sql) == NotNull(sql)

\* RustType::no_option
RECURSIVE no_option(_)
no_option(rust) == IF rust.t = "Option" THEN no_option(rust.inner) ELSE rust

\* RustType::as_no_option
as_no_option(rust) == no_option(rust)

\* RustType::is_primitive
is_primitive(rust) == as_no_option(rust).t \in IntTags \cup {"Bool"}

\* RustType::is_vec
is_vec(rust) == as_no_option(rust).t = "Vec"

\* RustType::as_inner_type
RECURSIVE as_inner_type(_)
as_inner_type(rust) ==
    IF is_primitive(rust) THEN rust
    ELSE IF rust.t \in {"Vec", "Option", "Default"} THEN as_inner_type(rust.inner)
    ELSE rust

\* the upper bound of a U16 or U32 range is at most the signed maximum
\* a variant of the guard of line 545 that compares with the unsigned bound
UpperFitsU16(range) == range.max <= Num("u16::MAX")

UpperFitsI16(range) == range.max <= Num("i16::MAX")

\* a variant of the guard of line 547 that compares with the unsigned bound
UpperFitsU32(range) == range.max <= Num("u32::MAX")

UpperFitsI32(range) == range.max <= Num("i32::MAX")

\* impl ToSql for RustType
RECURSIVE to_sql(_)
to_sql(rust) ==
    CASE rust.t = "Bool" -> NotNull(Boolean)
      [] rust.t = "Null" -> nullable(NullByteArray)
      [] rust.t \in {"U8", "I8"} -> NotNull(SmallInt)
      [] rust.t = "U16" /\ UpperFitsI16(rust.range) -> NotNull(SmallInt)
      [] rust.t = "I16" -> NotNull(SmallInt)
      [] rust.t = "U32" /\ UpperFitsI32(rust.range) -> NotNull(Integer)
      [] rust.t = "U16" /\ ~UpperFitsI16(rust.range) -> NotNull(Integer)
      [] rust.t = "I32" -> NotNull(Integer)
      [] rust.t = "U32" /\ ~UpperFitsI32(rust.range) -> NotNull(BigInt)
      [] rust.t \in {"U64", "I64"} -> NotNull(BigInt)
      [] rust.t = "String" -> NotNull(Text)
      [] rust.t = "VecU8" -> NotNull(ByteArray)
      [] rust.t = "BitVec" -> NotNull(BitsReprByByteArrayAndBitsLen)
      [] rust.t = "Vec" -> NotNull(Array(to_sql(rust.inner)))
      [] rust.t = "Option" -> nullable(to_sql(rust.inner))
      [] rust.t = "Default" -> to_sql(rust.inner)
      [] rust.t = "Complex" ->
            NotNull(References(rust.name, FOREIGN_KEY_DEFAULT_COLUMN, Cascade, Cascade))

\* SqlType::to_rust
RECURSIVE to_rust(_)
to_rust(sql) ==
    CASE sql.t = "SmallInt" ->
            ROption(RInt("I16", Range_inclusive(Num("0"), Num("i16::MAX"))))
      [] sql.t = "Integer" ->
            ROption(RInt("I32", Range_inclusive(Num("0"), Num("i32::MAX"))))
      [] sql.t = "BigInt" ->
            ROption(RInt("I64", Range_inclusive(Num("0"), Num("i64::MAX"))))
      [] sql.t = "Serial" ->
            ROption(RInt("I32", Range_inclusive(Num("0"), Num("i32::MAX"))))
      [] sql.t = "Boolean" -> ROption(RBool)
      [] sql.t = "Text" -> ROption(RString("Any", "Utf8"))
      [] sql.t = "Array" -> ROption(RVec(to_rust(sql.inner), "Any", "Keep"))
      [] sql.t = "NotNull" -> no_option(to_rust(sql.inner))
      [] sql.t = "ByteArray" -> ROption(RVecU8("Any"))
      [] sql.t = "NullByteArray" -> RNull
      [] sql.t = "BitsReprByByteArrayAndBitsLen" -> ROption(RBitVec("Any"))
      [] sql.t = "References" -> ROption(RComplex(sql.table, None))

(***************************************************************************)
(* Names                                                                   *)
(***************************************************************************)
\* RustCodeGenerator::rust_variant_name: the first character and every
\* character after '-' or '_' in upper case, the separators dropped
RECURSIVE rust_variant_name_from(_, _, _, _)
rust_variant_name_from(name, k, out, next_upper) ==
    IF k > Len(name) THEN out
    ELSE IF next_upper
         THEN rust_variant_name_from(name, k + 1, Append(out, to_uppercase(name[k])), FALSE)
    ELSE IF name[k] \in {"-", "_"}
         THEN rust_variant_name_from(name, k + 1, out, TRUE)
    ELSE rust_variant_name_from(name, k + 1, Append(out, name[k]), FALSE)

rust_variant_name(name) == rust_variant_name_from(name, 1, <<>>, TRUE)

\* RustCodeGenerator::rust_module_name: snake case; an upper-case character
\* is lowered, after '_' when it starts a word, and '-' becomes '_'
RECURSIVE rust_module_name_from(_, _, _, _, _)
rust_module_name_from(name, k, out, prev_lowered, prev_alphabetic) ==
    IF k > Len(name) THEN out
    ELSE LET c == name[k]
             word_start ==
                 /\ out # <<>>
                 /\ prev_alphabetic
                 /\ \/ ~prev_lowered
                    \/ k < Len(name) /\ is_lowercase(name[k + 1])
         IN  IF is_uppercase(c)
             THEN rust_module_name_from(name, k + 1,
                      (IF word_start THEN Append(out, "_") ELSE out) \o <<to_lowercase(c)>>,
                      TRUE, is_alphabetic(c))
             ELSE rust_module_name_from(name, k + 1,
                      Append(out, IF c = "-" THEN "_" ELSE c),
                      FALSE, is_alphabetic(c))

rust_module_name(name) == rust_module_name_from(name, 1, <<>>, FALSE, FALSE)

\* Model<Sql>::sql_column_name
\* a variant of sql_column_name that compares the name untrimmed
sql_column_name_untrimmed(name) ==
    IF eq_ignore_ascii_case(FOREIGN_KEY_DEFAULT_COLUMN, name)
    THEN Append(rust_module_name(name), "_")
    ELSE rust_module_name(name)

\* a variant of sql_column_name that never suffixes
sql_column_name_plain(name) == rust_module_name(name)

sql_column_name(name) ==
    IF eq_ignore_ascii_case(FOREIGN_KEY_DEFAULT_COLUMN, trim(name))
    THEN Append(rust_module_name(name), "_")
    ELSE rust_module_name(name)

\* usize::saturating_sub
saturating_sub(a, b) == IF a >= b THEN a - b ELSE 0

\* a variant of remainig that subtracts index + 1 where 1 is to be subtracted
remainig_less_index(name, k) == saturating_sub(Len(name) - (k - 1), k)

\* let remainig = (name.len() - index).saturating_sub(1), for index = k - 1
remainig(name, k) == saturating_sub(Len(name) - (k - 1), 1)

\* a variant of the loop that drops every lower-case character and copies
\* no rest over
sql_definition_name_from_dropping(name, k, result) ==
    LET Kept(c) == ~is_ascii_lowercase(c)
    IN  result \o SelectSeq(SubSeq(name, k, Len(name)), Kept)

\* the loop of sql_definition_name from the character of index k - 1 on: a
\* lower-case character is skipped; another is pushed, and then the rest is
\* copied over if it fits, or the loop ends if the limit is reached
RECURSIVE sql_definition_name_from(_, _, _)
sql_definition_name_from(name, k, result) ==
    CASE k > Len(name) -> result
      [] k <= Len(name) /\ is_ascii_lowercase(name[k]) ->
            sql_definition_name_from(name, k + 1, result)
      [] /\ k <= Len(name) /\ ~is_ascii_lowercase(name[k])
         /\ remainig(name, k) + Len(result) + 1 <= TYPENAME_LENGTH_LIMIT_PSQL ->
            Append(result, name[k]) \o SubSeq(name, k + 1, Len(name))
      [] /\ k <= Len(name) /\ ~is_ascii_lowercase(name[k])
         /\ remainig(name, k) + Len(result) + 1 > TYPENAME_LENGTH_LIMIT_PSQL
         /\ Len(result) + 1 >= TYPENAME_LENGTH_LIMIT_PSQL ->
            Append(result, name[k])
      [] OTHER -> sql_definition_name_from(name, k + 1, Append(result, name[k]))

\* a variant of sql_definition_name that passes every name through
sql_definition_name_unshortened(name) == name

\* Model<Sql>::sql_definition_name
sql_definition_name(name) ==
    IF Len(name) > TYPENAME_LENGTH_LIMIT_PSQL
    THEN sql_definition_name_from(name, 1, <<>>)
    ELSE name

\* Model<Sql>::struct_list_entry_table_name
\* a variant of struct_list_entry_table_name that does not shorten the name
struct_list_entry_table_name_long(struct_name, field_name) ==
    struct_name \o <<"_">> \o rust_variant_name(field_name)

struct_list_entry_table_name(struct_name, field_name) ==
    sql_definition_name(struct_name \o <<"_">> \o rust_variant_name(field_name))

(***************************************************************************)
(* The schema model                                                        *)
(***************************************************************************)
Definition(name, value) == [name |-> name, value |-> value]

Column(name, sql, primary_key) == [name |-> name, sql |-> sql, primary_key |-> primary_key]

CombinedPrimaryKey(columns) == [t |-> "CombinedPrimaryKey", columns |-> columns]

OneNotNull(columns) == [t |-> "OneNotNull", columns |-> columns]

Table(columns, constraints) == [t |-> "Table", columns |-> columns, constraints |-> constraints]

Enum(variants) == [t |-> "Enum", variants |-> variants]

Index(table, columns) == [t |-> "Index", table |-> table, columns |-> columns]

AbandonChildrenFunction(table, children) ==
    [t |-> "AbandonChildrenFunction", table |-> table, children |-> children]

SilentlyPreventAnyDelete(table) == [t |-> "SilentlyPreventAnyDelete", table |-> table]

\* Vec::push
\* a variant of push that puts the element first
push_front(vec, e) == <<e>> \o vec

push(vec, e) == Append(vec, e)

(***************************************************************************)
(* Table synthesis.  Every function is given the definition list and       *)
(* returns the list it leaves.                                             *)
(***************************************************************************)
\* a variant of index_def whose index is on the column of the suffixed name
index_def_suffixed(table, column) ==
    Definition(sql_definition_name(table \o <<"_","I","n","d","e","x","_">> \o column),
               Index(table, <<Append(column, "_")>>))

\* Model<Sql>::index_def
index_def(table, column) ==
    Definition(sql_definition_name(table \o <<"_","I","n","d","e","x","_">> \o column),
               Index(table, <<column>>))

\* a variant of add_index_if_applicable that adds no index
add_index_if_applicable_never(table, column, rust, defs) == defs

\* Model<Sql>::add_index_if_applicable
add_index_if_applicable(table, column, rust, defs) ==
    IF nullable(to_sql(rust)).t = "References"
    THEN push(defs, index_def(table, column))
    ELSE defs

\* a variant of add_abandon_children that adds no function
add_abandon_children_never(name, children, defs) == defs

\* Model<Sql>::add_abandon_children
add_abandon_children(name, children, defs) ==
    push(defs, Definition(
        sql_definition_name(<<"D","e","l","C","h","i","l","d","s","_">> \o name),
        AbandonChildrenFunction(name, children)))

\* Model<Sql>::add_silently_prevent_any_delete
add_silently_prevent_any_delete(name, defs) ==
    push(defs, Definition(
        sql_definition_name(
            <<"S","i","l","e","n","t","l","y","P","r","e","v","e","n","t",
              "A","n","y","D","e","l","e","t","e","O","n">> \o name),
        SilentlyPreventAnyDelete(name)))

\* the loop of append_index_and_abandon_function from field k on: the list
\* and the children it leaves
RECURSIVE index_and_children_from(_, _, _, _, _)
index_and_children_from(name, fields, k, defs, children) ==
    IF k > Len(fields) THEN [defs |-> defs, children |-> children]
    ELSE LET column == sql_column_name(fields[k].name)
             rust == fields[k].type
             sql == nullable(to_sql(rust))
         IN  index_and_children_from(name, fields, k + 1,
                 add_index_if_applicable(name, column, rust, defs),
                 IF sql.t = "References"
                 THEN push(children, <<column, sql.table, sql.column>>)
                 ELSE children)

\* Model<Sql>::append_index_and_abandon_function
append_index_and_abandon_function(name, fields, defs) ==
    LET r == index_and_children_from(name, fields, 1, defs, <<>>)
    IN  IF r.children # <<>>
        THEN add_abandon_children(name, r.children, r.defs)
        ELSE r.defs

\* a variant of add_list_table whose column 'list' is not wrapped NotNull
add_list_table_nullable(name, defs, list_entry_name, value_sql_type) ==
    push(defs, Definition(list_entry_name, Table(
        <<Column(TUPLE_LIST_ENTRY_PARENT_COLUMN,
                 References(name, FOREIGN_KEY_DEFAULT_COLUMN, Cascade, Cascade),
                 FALSE),
          Column(TUPLE_LIST_ENTRY_VALUE_COLUMN, value_sql_type, FALSE)>>,
        <<CombinedPrimaryKey(<<TUPLE_LIST_ENTRY_PARENT_COLUMN,
                               TUPLE_LIST_ENTRY_VALUE_COLUMN>>)>>)))

\* Model<Sql>::add_list_table
add_list_table(name, defs, list_entry_name, value_sql_type) ==
    LET table ==
            Definition(list_entry_name, Table(
                <<Column(TUPLE_LIST_ENTRY_PARENT_COLUMN,
                         NotNull(References(name, FOREIGN_KEY_DEFAULT_COLUMN,
                                            Cascade, Cascade)),
                         FALSE),
                  Column(TUPLE_LIST_ENTRY_VALUE_COLUMN, value_sql_type, FALSE)>>,
                <<CombinedPrimaryKey(<<TUPLE_LIST_ENTRY_PARENT_COLUMN,
                                       TUPLE_LIST_ENTRY_VALUE_COLUMN>>)>>))
        with_indexes ==
            push(push(push(defs, table),
                      index_def(list_entry_name, TUPLE_LIST_ENTRY_PARENT_COLUMN)),
                 index_def(list_entry_name, TUPLE_LIST_ENTRY_VALUE_COLUMN))
        value == nullable(value_sql_type)
    IN  IF value.t = "References"
        THEN add_abandon_children(list_entry_name,
                 <<<<TUPLE_LIST_ENTRY_VALUE_COLUMN, value.table, value.column>>>>,
                 with_indexes)
        ELSE with_indexes

\* the field loop of rust_struct_to_sql_table from field k on: the columns
\* and the deferred list-entry definitions it leaves
RECURSIVE struct_fields_from(_, _, _, _, _)
struct_fields_from(name, fields, k, columns, deferred) ==
    IF k > Len(fields) THEN [columns |-> columns, deferred |-> deferred]
    ELSE LET field == fields[k]
         IN  IF is_vec(field.type)
             THEN struct_fields_from(name, fields, k + 1, columns,
                      add_list_table(name, deferred,
                          struct_list_entry_table_name(name, field.name),
                          to_sql(as_inner_type(field.type))))
             ELSE struct_fields_from(name, fields, k + 1,
                      push(columns, Column(sql_column_name(field.name),
                                           to_sql(field.type), FALSE)),
                      deferred)

\* Model<Sql>::rust_struct_to_sql_table
rust_struct_to_sql_table(name, fields, defs) ==
    LET r == struct_fields_from(name, fields, 1,
                 <<Column(FOREIGN_KEY_DEFAULT_COLUMN, Serial, TRUE)>>, <<>>)
    IN  append_index_and_abandon_function(name, fields,
            push(defs, Definition(name, Table(r.columns, <<>>))))
        \o r.deferred

\* whether a variant of the data enum is named like the key column
HasKeyVariant(variants) ==
    \E k \in 1..Len(variants) :
        eq_ignore_ascii_case(FOREIGN_KEY_DEFAULT_COLUMN, variants[k].name)

\* Model<Sql>::rust_data_enum_to_sql_table
rust_data_enum_to_sql_table(name, variants, defs) ==
    LET key == IF ~HasKeyVariant(variants)
               THEN <<Column(FOREIGN_KEY_DEFAULT_COLUMN, Serial, TRUE)>>
               ELSE <<>>
        columns ==
            key \o [k \in 1..Len(variants) |->
                       Column(sql_column_name(variants[k].name),
                              nullable(to_sql(variants[k].type)), FALSE)]
        one_not_null ==
            OneNotNull([k \in 1..Len(variants) |-> rust_module_name(variants[k].name)])
    IN  append_index_and_abandon_function(name, variants,
            push(defs, Definition(name, Table(columns, <<one_not_null>>))))

\* a variant of rust_enum_to_sql_enum that adds no guard
rust_enum_to_sql_enum_unguarded(name, variants, defs) ==
    push(defs, Definition(name, Enum(variants)))

\* Model<Sql>::rust_enum_to_sql_enum
rust_enum_to_sql_enum(name, variants, defs) ==
    add_silently_prevent_any_delete(name, push(defs, Definition(name, Enum(variants))))

\* a variant of rust_tuple_struct_to_sql_table that holds the wrapped value
\* in a column of the outer table
rust_tuple_struct_to_sql_table_inline(name, rust_inner, defs) ==
    push(defs, Definition(name,
        Table(<<Column(FOREIGN_KEY_DEFAULT_COLUMN, Serial, TRUE),
                Column(TUPLE_LIST_ENTRY_VALUE_COLUMN, to_sql(rust_inner), FALSE)>>,
              <<>>)))

\* Model<Sql>::rust_tuple_struct_to_sql_table
rust_tuple_struct_to_sql_table(name, rust_inner, defs) ==
    add_list_table(name,
        push(defs, Definition(name,
            Table(<<Column(FOREIGN_KEY_DEFAULT_COLUMN, Serial, TRUE)>>, <<>>))),
        sql_definition_name(name \o <<"L","i","s","t","E","n","t","r","y">>),
        to_sql(as_inner_type(rust_inner)))

\* Model<Sql>::definition_to_sql
definition_to_sql(name, rust, defs) ==
    CASE rust.t = "Struct" -> rust_struct_to_sql_table(name, rust.fields, defs)
      [] rust.t = "Enum" -> rust_enum_to_sql_enum(name, rust.variants, defs)
      [] rust.t = "DataEnum" -> rust_data_enum_to_sql_table(name, rust.variants, defs)
      [] rust.t = "TupleStruct" -> rust_tuple_struct_to_sql_table(name, rust.type, defs)

(***************************************************************************)
(* The ordering pass                                                       *)
(***************************************************************************)
\* how many nested calls of walk_graph the stack holds; a deeper recursion
\* overflows the stack and the process is aborted
MaxStack == 10

\* HashMap::get(name).is_some() and HashMap::insert
contains_key(map, name) == name \in DOMAIN map

\* a variant of insert that keeps the value of a key already present
insert_keeping(map, name, value) ==
    [n \in DOMAIN map \cup {name} |-> IF n \in DOMAIN map THEN map[n] ELSE value]

insert(map, name, value) ==
    [n \in DOMAIN map \cup {name} |-> IF n = name THEN value ELSE map[n]]

EmptyMap == [n \in {} |-> 0]

\* the names walk_graph walks on from a definition, in the order of the walk
ReferencedNames(value) ==
    CASE value.t = "Table" ->
            LET refs == {k \in 1..Len(value.columns) :
                            as_nullable(value.columns[k].sql).t = "References"}
                RECURSIVE from(_)
                from(k) ==
                    IF k > Len(value.columns) THEN <<>>
                    ELSE (IF k \in refs
                          THEN <<as_nullable(value.columns[k].sql).table>>
                          ELSE <<>>) \o from(k + 1)
            IN  from(1)
      [] value.t = "Enum" -> <<>>
      [] value.t \in {"Index", "AbandonChildrenFunction", "SilentlyPreventAnyDelete"} ->
            <<value.table>>

\* a variant of FirstNamed that takes an absent name for the first definition
FirstNamed_or_first(defs, name) ==
    IF \E k \in 1..Len(defs) : defs[k].name = name
    THEN CHOOSE k \in 1..Len(defs) :
            /\ defs[k].name = name
            /\ \A j \in 1..(k - 1) : defs[j].name # name
    ELSE 1

\* the index walk_from_name finds: the first definition of that name, 0 if none
FirstNamed(defs, name) ==
    IF \E k \in 1..Len(defs) : defs[k].name = name
    THEN CHOOSE k \in 1..Len(defs) :
            /\ defs[k].name = name
            /\ \A j \in 1..(k - 1) : defs[j].name # name
    ELSE 0

\* Model<Sql>::walk_graph, `frames` calls deep; walk_names is its walk over
\* the names the definition refers to.  The result holds the map left and
\* whether the stack held.
RECURSIVE walk_graph(_, _, _, _, _)
RECURSIVE walk_names(_, _, _, _, _, _)
walk_graph(defs, current, depths, d, frames) ==
    IF frames > MaxStack THEN [ok |-> FALSE, depths |-> depths]
    ELSE LET name == defs[current].name
             known == contains_key(depths, name)
             here == IF known /\ ~(d > depths[name]) THEN depths[name] ELSE d
             depths1 == IF known /\ ~(d > depths[name])
                        THEN depths
                        ELSE insert(depths, name, d)
         IN  walk_names(defs, ReferencedNames(defs[current].value), 1,
                        depths1, here, frames)

walk_names(defs, names, k, depths, here, frames) ==
    IF k > Len(names) THEN [ok |-> TRUE, depths |-> depths]
    ELSE LET index == FirstNamed(defs, names[k])
         IN  IF index = 0
             THEN walk_names(defs, names, k + 1, depths, here, frames)
             ELSE LET r == walk_graph(defs, index, depths, here + 1, frames + 1)
                  IN  IF r.ok
                      THEN walk_names(defs, names, k + 1, r.depths, here, frames)
                      ELSE r

\* depth.get(key.name()).unwrap_or(&0)
DepthOf(depths, name) == IF contains_key(depths, name) THEN depths[name] ELSE 0

\* the sort key usize::MAX - depth, less the constant usize::MAX
\* a variant of the sort key that orders by ascending depth
SortKey_ascending(depths, def) ==
    IF def.name \in DOMAIN depths THEN depths[def.name] ELSE 0

SortKey(depths, def) == 0 - DepthOf(depths, def.name)

\* a variant of sort_by_key that leaves the order of synthesis
sort_by_key_unsorted(defs, depths) == defs

\* a variant of InsertByKey that puts an element before the elements of its key
RECURSIVE InsertByKey_unstable(_, _, _)
InsertByKey_unstable(sorted, def, depths) ==
    IF sorted = <<>> THEN <<def>>
    ELSE IF SortKey(depths, sorted[Len(sorted)]) < SortKey(depths, def)
         THEN Append(sorted, def)
         ELSE Append(InsertByKey_unstable(SubSeq(sorted, 1, Len(sorted) - 1), def, depths),
                     sorted[Len(sorted)])

\* slice::sort_by_key, a stable sort: each element is put behind the elements
\* before it whose key is not greater
RECURSIVE InsertByKey(_, _, _)
InsertByKey(sorted, def, depths) ==
    IF sorted = <<>> THEN <<def>>
    ELSE IF SortKey(depths, sorted[Len(sorted)]) <= SortKey(depths, def)
         THEN Append(sorted, def)
         ELSE Append(InsertByKey(SubSeq(sorted, 1, Len(sorted) - 1), def, depths),
                     sorted[Len(sorted)])

RECURSIVE sort_by_key(_, _)
sort_by_key(defs, depths) ==
    IF defs = <<>> THEN <<>>
    ELSE InsertByKey(sort_by_key(SubSeq(defs, 1, Len(defs) - 1), depths),
                     defs[Len(defs)], depths)

(***************************************************************************)
(* convert_rust_to_sql as a state machine                                  *)
(***************************************************************************)
Person == <<"P","e","r","s","o","n">>

City == <<"C","i","t","y">>

Country == <<"C","o","u","n","t","r","y">>

\* the name of a definition that is also the name of the list-entry table of
\* the tuple struct Person
PersonListEntry == Person \o <<"L","i","s","t","E","n","t","r","y">>

\* a name of 62 characters: every name derived from it exceeds the limit
LongName == Repeat(<<"T","h","e","Q","u","i","c","k">>, 7) \o <<"B","r","o","w","n","y">>

Utf8String == RString("Any", "Utf8")

DEFAULT_UTF8_STRING == [t |-> "Some", v |-> "DEFAULT_UTF8_STRING"]

Field(name, type) == [name |-> name, type |-> type]

Struct(fields) == [t |-> "Struct", fields |-> fields]

PlainEnum(variants) == [t |-> "Enum", variants |-> variants]

DataEnum(variants) == [t |-> "DataEnum", variants |-> variants]

TupleStruct(type) == [t |-> "TupleStruct", type |-> type]

\* how many definitions the input model holds at most
MaxDefs == 2

\* the definition bodies given: the shapes of the tests of the source, with
\* references that name each other, themselves or nothing
RustBodies ==
    { Struct(<<Field(<<"n","a","m","e">>, Utf8String),
               Field(<<"b","i","r","t","h">>, RComplex(City, None))>>),
      Struct(<<Field(<<"i","d">>, Utf8String),
               Field(<<"n","e","x","t">>, ROption(RComplex(Person, None)))>>),
      Struct(<<Field(<<"l","i","s","t","_","o","f","_","p","r","i","m","i","t","i","v","e">>,
                     RVec(Utf8String, "Any", "Keep")),
               Field(<<"l","i","s","t","_","o","f","_","r","e","f","e","r","e","n","c","e">>,
                     RVec(RComplex(City, DEFAULT_UTF8_STRING), "Any", "Keep"))>>),
      PlainEnum(<<<<"E","s","s","l","i","n","g","e","n">>,
                  <<"S","t","u","t","t","g","a","r","t">>>>),
      DataEnum(<<Field(<<"D","e","a","d","S","i","n","c","e">>, Utf8String),
                 Field(<<"A","l","i","v","e">>, RComplex(Person, DEFAULT_UTF8_STRING))>>),
      DataEnum(<<Field(<<"I","d">>, Utf8String),
                 Field(<<"O","t","h","e","r">>,
                       ROption(RComplex(PersonListEntry, None)))>>),
      TupleStruct(Utf8String),
      TupleStruct(RComplex(Person, None)),
      TupleStruct(ROption(RVec(RComplex(Country, None), "Any", "Keep"))) }

\* the definitions given: every body under the three short names, and the
\* long name for a struct with lists and for an enum
RustDefinitions ==
    {Definition(name, rust) : name \in {Person, City, PersonListEntry},
                              rust \in RustBodies}
    \cup {Definition(LongName, rust) :
            rust \in {r \in RustBodies :
                        \/ r.t = "Enum"
                        \/ r.t = "Struct" /\ is_vec(r.fields[1].type)}}

\* the models of at most len definitions; the names of the definitions of a
\* model are distinct, as the type names of an ASN.1 module are
RECURSIVE RustModels(_)
RustModels(len) ==
    IF len = 0 THEN {<<>>}
    ELSE LET shorter == RustModels(len - 1)
         IN  shorter \cup
             {Append(m[1], m[2]) :
                 m \in {x \in shorter \X RustDefinitions :
                           /\ Len(x[1]) = len - 1
                           /\ \A k \in 1..Len(x[1]) : x[1][k].name # x[2].name}}

Init ==
    /\ NoWriter
    /\ rust_model \in RustModels(MaxDefs)
    /\ definitions = <<>>
    /\ depth = EmptyMap
    /\ pc = "convert"
    /\ i = 1
    /\ rust_type = None
    /\ sql_type = None
    /\ back = None
    /\ given_name = <<>>
    /\ mangled = <<>>
    /\ column_name = <<>>

\* the body of the loop of convert_rust_to_sql over the input definitions
DefinitionToSql ==
    /\ pc = "convert"
    /\ i <= Len(rust_model)
    /\ definitions' = definition_to_sql(sql_definition_name(rust_model[i].name),
                                        rust_model[i].value, definitions)
    /\ i' = i + 1
    /\ UNCHANGED <<rust_model, depth, pc, rust_type, sql_type, back, name_vars, writer_vars>>

\* the loop is over: fix_table_declaration_occurrence starts with an empty map
FixTableDeclarationOccurrence ==
    /\ pc = "convert"
    /\ i > Len(rust_model)
    /\ pc' = "walk"
    /\ i' = 1
    /\ depth' = EmptyMap
    /\ UNCHANGED <<rust_model, definitions, rust_type, sql_type, back, name_vars, writer_vars>>

\* self.walk_graph(i, &mut depth, 0) of the loop over the definitions
WalkGraph ==
    /\ pc = "walk"
    /\ i <= Len(definitions)
    /\ LET r == walk_graph(definitions, i, depth, 0, 1)
       IN  /\ r.ok
           /\ depth' = r.depths
    /\ i' = i + 1
    /\ UNCHANGED <<rust_model, definitions, pc, rust_type, sql_type, back, name_vars, writer_vars>>

\* the recursion of walk_graph does not end: the stack overflows and the
\* process is aborted
StackOverflow ==
    /\ pc = "walk"
    /\ i <= Len(definitions)
    /\ ~walk_graph(definitions, i, depth, 0, 1).ok
    /\ pc' = "aborted"
    /\ UNCHANGED <<rust_model, definitions, depth, i, rust_type, sql_type, back, name_vars, writer_vars>>

\* self.definitions.sort_by_key(..), and convert_rust_to_sql returns
SortByKey ==
    /\ pc = "walk"
    /\ i > Len(definitions)
    /\ definitions' = sort_by_key(definitions, depth)
    /\ pc' = "done"
    /\ UNCHANGED <<rust_model, depth, i, rust_type, sql_type, back, name_vars, writer_vars>>

Next ==
    \/ DefinitionToSql
    \/ FixTableDeclarationOccurrence
    \/ WalkGraph
    \/ StackOverflow
    \/ SortByKey

Spec == Init /\ [][Next]_vars

(***************************************************************************)
(* Claims about the ordering pass                                          *)
(***************************************************************************)
Positions == 1..Len(definitions)

IsTable(def) == def.value.t = "Table"

\* definition a is a table holding a column that, NotNull stripped, is a
\* foreign key naming definition b
HoldsKeyInto(a, b) ==
    /\ IsTable(definitions[a])
    /\ \E k \in 1..Len(definitions[a].value.columns) :
          LET sql == as_nullable(definitions[a].value.columns[k].sql)
          IN  sql.t = "References" /\ sql.table = definitions[b].name

\* the loop over walk_graph has run for every definition
DepthsComputed == (pc = "walk" /\ i > Len(definitions)) \/ pc = "done"

ComputedDepth(k) == DepthOf(depth, definitions[k].name)

FirstOfItsName(a) == \A k \in 1..(a - 1) : definitions[k].name # definitions[a].name

C2_ReferencedIsLater ==
    pc = "done" =>
        \A a, b \in Positions : HoldsKeyInto(a, b) => b > a

\* C2 amended: in the final order, whenever table A holds a foreign key into
\* B and A is the first definition bearing its name, B is emitted earlier
\* than A.
C2_ReferencedIsEarlier ==
    pc = "done" =>
        \A a, b \in Positions :
            (HoldsKeyInto(a, b) /\ FirstOfItsName(a)) => b < a

\* the conversion is done and the input defines the referenced table after
\* the table that refers to it
C2_Witness ==
    /\ pc = "done"
    /\ Len(rust_model) = 2
    /\ rust_model[1].value.t = "Struct"
    /\ \E k \in 1..Len(rust_model[1].value.fields) :
          rust_model[1].value.fields[k].type = RComplex(rust_model[2].name, None)
    /\ \E a, b \in Positions :
          HoldsKeyInto(a, b) /\ FirstOfItsName(a) /\ b < a

IsJoinTable(def) ==
    /\ IsTable(def)
    /\ def.value.constraints # <<>>
    /\ def.value.constraints[1].t = "CombinedPrimaryKey"

\* every definition named `name` stands before position k
NamedStandBefore(name, k) ==
    \A j \in Positions : definitions[j].name = name => j < k

\* C3: in the final output the referenced definition precedes the
\* referencing one: every Index, AbandonChildrenFunction and
\* SilentlyPreventAnyDelete stands after the table or enum it names, and
\* every join table after the owner table its list column references.
C3_ReferencedPrecedes ==
    pc = "done" =>
        \A k \in Positions :
            LET value == definitions[k].value
            IN  /\ value.t \in {"Index", "AbandonChildrenFunction",
                                "SilentlyPreventAnyDelete"}
                       => NamedStandBefore(value.table, k)
                /\ IsJoinTable(definitions[k])
                       => NamedStandBefore(as_nullable(value.columns[1].sql).table, k)

\* the conversion of a model of two definitions is done and the output holds
\* a guard, an index, a function and a join table, each with the definition
\* it names
C3_Witness ==
    /\ pc = "done"
    /\ Len(rust_model) = 2
    /\ \A t \in {"Index", "AbandonChildrenFunction", "SilentlyPreventAnyDelete"} :
          \E k, j \in Positions :
              definitions[k].value.t = t /\ definitions[j].name = definitions[k].value.table
    /\ \E k, j \in Positions :
          /\ IsJoinTable(definitions[k])
          /\ definitions[j].name = as_nullable(definitions[k].value.columns[1].sql).table

\* the names a definition refers to that some definition bears, as walk_graph
\* resolves them: each to the first definition of the name
Edges(defs) ==
    {<<a, b>> \in (1..Len(defs)) \X (1..Len(defs)) :
        \E k \in 1..Len(ReferencedNames(defs[a].value)) :
            b = FirstNamed(defs, ReferencedNames(defs[a].value)[k])}

\* the positions reached from the positions `from` over n edges or fewer
RECURSIVE ReachedWithin(_, _, _)
ReachedWithin(edges, from, n) ==
    IF n = 0 THEN from
    ELSE LET near == ReachedWithin(edges, from, n - 1)
         IN  near \cup {e[2] : e \in {x \in edges : x[1] \in near}}

\* some definition reaches itself over the references
HasCycle(defs) ==
    LET edges == Edges(defs)
    IN  \E a \in 1..Len(defs) :
            a \in ReachedWithin(edges, {e[2] : e \in {x \in edges : x[1] = a}},
                                Len(defs))

\* C4 as stated: convert_rust_to_sql terminates for every input model, a
\* model with a reference cycle included: the ordering pass is never aborted.
C4_Terminates == pc # "aborted"

\* the stack of the model overflows only on a cycle of references, where the
\* recursion of walk_graph has no end, and on every such cycle
AbortedOnlyOnCycle ==
    /\ pc = "aborted" => HasCycle(definitions)
    /\ pc = "done" => ~HasCycle(definitions)

(***************************************************************************)
(* Claims about table synthesis.  A step of DefinitionToSql is given the   *)
(* definition rust_model[i] and appends the definitions Appended.          *)
(***************************************************************************)
Appended == SubSeq(definitions', Len(definitions) + 1, Len(definitions'))

\* the positions of the columns of a table that are flagged primary key
PrimaryKeys(table) == {k \in 1..Len(table.columns) : table.columns[k].primary_key}

KeyColumn == Column(FOREIGN_KEY_DEFAULT_COLUMN, Serial, TRUE)

NamedLikeKey(name) == eq_ignore_ascii_case(FOREIGN_KEY_DEFAULT_COLUMN, name)

IsList(field) == is_vec(field.type)

IsNoList(field) == ~is_vec(field.type)

\* C8 as stated: every table of the output has exactly one column flagged
\* primary key.
C8_OnePrimaryKeyPerTable ==
    \A k \in Positions :
        IsTable(definitions[k]) => Cardinality(PrimaryKeys(definitions[k].value)) = 1

\* C8 amended: the table of a struct and of a tuple struct has exactly one
\* column flagged primary key, its first column 'id' of type Serial, also
\* when a field is named like 'id': the column of that field is suffixed '_'
\* and not flagged.  The table of a data enum has the same key column unless
\* a variant is named like 'id' (case-insensitively): then the column of that
\* variant is suffixed '_' and no column is flagged.  A join table has no
\* column flagged primary key: its key is the CombinedPrimaryKey constraint.
C8_PrimaryKeyByKind ==
    [][DefinitionToSql =>
        LET rust == rust_model[i].value
            table == Appended[1].value
            Suffixed(name, column) ==
                /\ column.name = Append(rust_module_name(name), "_")
                /\ ~column.primary_key
        IN  /\ rust.t \in {"Struct", "TupleStruct"} =>
                /\ PrimaryKeys(table) = {1}
                /\ table.columns[1] = KeyColumn
            /\ rust.t = "Struct" =>
                LET fields == SelectSeq(rust.fields, IsNoList)
                IN  \A k \in 1..Len(fields) :
                        NamedLikeKey(fields[k].name)
                            => Suffixed(fields[k].name, table.columns[k + 1])
            /\ (rust.t = "DataEnum" /\ ~HasKeyVariant(rust.variants)) =>
                /\ PrimaryKeys(table) = {1}
                /\ table.columns[1] = KeyColumn
            /\ (rust.t = "DataEnum" /\ HasKeyVariant(rust.variants)) =>
                /\ PrimaryKeys(table) = {}
                /\ \A k \in 1..Len(rust.variants) :
                        NamedLikeKey(rust.variants[k].name)
                            => Suffixed(rust.variants[k].name, table.columns[k])
            /\ \A k \in 2..Len(Appended) :
                    IsTable(Appended[k]) =>
                        /\ IsJoinTable(Appended[k])
                        /\ PrimaryKeys(Appended[k].value) = {}
    ]_vars

\* a struct with a field named 'id' has been converted: its table holds the
\* key column 'id' and the column 'id_' of the field
C8_Witness ==
    /\ pc = "convert"
    /\ i = 2
    /\ rust_model[1].value.t = "Struct"
    /\ rust_model[1].value.fields[1].name = FOREIGN_KEY_DEFAULT_COLUMN
    /\ definitions[1].value.columns[1] = KeyColumn
    /\ definitions[1].value.columns[2].name = <<"i","d","_">>

\* C9 as stated: a DataEnum of N variants produces exactly one table, of N
\* nullable variant columns in variant order behind one key column (no key
\* column when a variant is named like the key), with exactly one constraint,
\* a OneNotNull whose column list is the names of the N variant columns.
C9_TaggedUnionFlattening ==
    [][(DefinitionToSql /\ rust_model[i].value.t = "DataEnum") =>
        LET variants == rust_model[i].value.variants
            table == Appended[1].value
            key == IF HasKeyVariant(variants) THEN 0 ELSE 1
        IN  /\ {k \in 1..Len(Appended) : IsTable(Appended[k])} = {1}
            /\ Len(table.columns) = Len(variants) + key
            /\ key = 1 => table.columns[1] = KeyColumn
            /\ \A k \in 1..Len(variants) :
                    /\ table.columns[key + k].sql = nullable(to_sql(variants[k].type))
                    /\ table.columns[key + k].sql.t # "NotNull"
                    /\ ~table.columns[key + k].primary_key
            /\ table.constraints =
                   <<OneNotNull([k \in 1..Len(variants) |-> table.columns[key + k].name])>>
    ]_vars

\* the one join table of each list field of a struct, and no column for it,
\* the join tables being named by Name(table, field)
ListNormalization(Name(_, _)) ==
    (DefinitionToSql /\ rust_model[i].value.t = "Struct") =>
        LET fields == rust_model[i].value.fields
            lists == SelectSeq(fields, IsList)
            others == SelectSeq(fields, IsNoList)
            owner == Appended[1]
            joins == SelectSeq(Appended, IsJoinTable)
        IN  /\ IsTable(owner) /\ ~IsJoinTable(owner)
            /\ Len(owner.value.columns) = 1 + Len(others)
            /\ \A k \in 1..Len(others) :
                    owner.value.columns[k + 1].name = sql_column_name(others[k].name)
            /\ Len(joins) = Len(lists)
            /\ \A k \in 1..Len(lists) :
                    /\ joins[k].name = Name(owner.name, lists[k].name)
                    /\ joins[k].value.constraints =
                           <<CombinedPrimaryKey(<<TUPLE_LIST_ENTRY_PARENT_COLUMN,
                                                  TUPLE_LIST_ENTRY_VALUE_COLUMN>>)>>

UnderscoreVariantCase(table, field) == table \o <<"_">> \o rust_variant_name(field)

ShortenedUnderscoreVariantCase(table, field) ==
    sql_definition_name(UnderscoreVariantCase(table, field))

\* C10 as stated: a list field of a struct produces no column on the table
\* of the struct and exactly one join table, named <Table>_<VariantCase(field)>,
\* with a CombinedPrimaryKey over (list, value).
C10_ListNormalization == [][ListNormalization(UnderscoreVariantCase)]_vars

\* C10 amended: a list field of a struct produces no column on the table of
\* the struct and exactly one join table, named
\* sql_definition_name(<Table>_<VariantCase(field)>), which is that name
\* shortened when it exceeds 63 characters, with a CombinedPrimaryKey over
\* (list, value).
C10_ListNormalizationShortenedName ==
    [][ListNormalization(ShortenedUnderscoreVariantCase)]_vars

\* the struct of the long name has been converted: the name of its first
\* join table is shortened to the limit
C10_Witness ==
    /\ pc = "convert"
    /\ i = 2
    /\ rust_model[1].name = LongName
    /\ rust_model[1].value.t = "Struct"
    /\ \E k \in Positions :
          /\ IsJoinTable(definitions[k])
          /\ Len(definitions[k].name) <= TYPENAME_LENGTH_LIMIT_PSQL
          /\ definitions[k].name #
                 UnderscoreVariantCase(LongName, rust_model[1].value.fields[1].name)

(***************************************************************************)
(* The type mapper as a state machine: a field type is given, mapped to    *)
(* its column type, and mapped back.                                       *)
(***************************************************************************)
\* how deep the wrappers Option, Vec and Default nest in the types given
MaxNest == 2

\* the bounds an integer type's range can have: the values of the line
\* between the least and the greatest value of the type
BoundsOf(tag) == TypeMin(tag)..TypeMax(tag)

IntTypes ==
    {RInt(tag, Range_inclusive(lo, hi)) :
        <<tag, lo, hi>> \in {x \in IntTags \X (1..Len(NumLine)) \X (1..Len(NumLine)) :
                                /\ x[2] \in BoundsOf(x[1])
                                /\ x[3] \in BoundsOf(x[1])
                                /\ x[2] <= x[3]}}
    \cup {RInt("U64", Range_none)}

BaseTypes ==
    IntTypes \cup
    {RBool, RNull, RString("Any", "Utf8"), RString("Fix", "Ia5"), RVecU8("Any"),
     RVecU8("Fix"), RBitVec("Any"), RComplex(City, None),
     RComplex(Person, DEFAULT_UTF8_STRING)}

RECURSIVE RustTypes(_)
RustTypes(nest) ==
    IF nest = 0 THEN BaseTypes
    ELSE LET inner == RustTypes(nest - 1)
         IN  inner \cup {ROption(r) : r \in inner}
                   \cup {RVec(r, "Any", "Keep") : r \in inner}
                   \cup {RDefault(r, "literal") : r \in inner}

NoModel == <<>>

InitType ==
    /\ NoWriter
    /\ rust_type \in RustTypes(MaxNest)
    /\ sql_type = None
    /\ back = None
    /\ rust_model = NoModel
    /\ definitions = <<>>
    /\ depth = EmptyMap
    /\ pc = "type"
    /\ i = 0
    /\ given_name = <<>>
    /\ mangled = <<>>
    /\ column_name = <<>>

ToSql ==
    /\ pc = "type"
    /\ sql_type = None
    /\ sql_type' = to_sql(rust_type)
    /\ UNCHANGED <<rust_model, definitions, depth, pc, i, rust_type, back, name_vars, writer_vars>>

ToRust ==
    /\ pc = "type"
    /\ sql_type # None
    /\ back = None
    /\ back' = to_rust(sql_type)
    /\ UNCHANGED <<rust_model, definitions, depth, pc, i, rust_type, sql_type, name_vars, writer_vars>>

NextType == ToSql \/ ToRust

SpecType == InitType /\ [][NextType]_vars

(***************************************************************************)
(* Claims about the type mapper                                            *)
(***************************************************************************)
\* the inclusive range [lo, hi] of an integer type; an absent bound of a U64
\* is the bound of the type
RangeLo(rust) == IF rust.range.min = NoBound THEN TypeMin(rust.t) ELSE rust.range.min

RangeHi(rust) == IF rust.range.max = NoBound THEN TypeMax(rust.t) ELSE rust.range.max

RoundTripContains ==
    /\ back.t \in IntTags
    /\ RangeLo(back) <= RangeLo(rust_type)
    /\ RangeHi(rust_type) <= RangeHi(back)

\* C6 as stated: the round trip of every integer field type, whatever its
\* range, is an integer type whose range contains the range given.
C6_NeverNarrows ==
    (rust_type.t \in IntTags /\ back # None) => RoundTripContains

\* C6 amended: the round trip of an integer field type with range [lo, hi] is
\* an integer type whose range contains [lo, hi] exactly when 0 <= lo and
\* hi <= i64::MAX; a negative lower bound and a U64 upper bound above
\* i64::MAX are lost, the range mapped back being [0, signed maximum].
C6_NeverNarrowsNonNegative ==
    (rust_type.t \in IntTags /\ back # None) =>
        /\ back.t \in {"I16", "I32", "I64"}
        /\ back.range = Range_inclusive(Num("0"), TypeMax(back.t))
        /\ RoundTripContains <=>
             (Num("0") <= RangeLo(rust_type) /\ RangeHi(rust_type) <= Num("i64::MAX"))

\* a U16 whose upper bound exceeds i16::MAX has been mapped and mapped back
C6_Witness ==
    /\ back # None
    /\ rust_type = RInt("U16", Range_inclusive(Num("1"), Num("u16::MAX")))
    /\ back.t = "I32"

\* C7 as stated: to_sql(Option(T)) is nullable for every T, and to_sql(T) is
\* NotNull for every T whose outermost constructor is neither Option nor Default.
C7_NullabilityDuality ==
    sql_type # None =>
        /\ rust_type.t = "Option" => sql_type.t # "NotNull"
        /\ rust_type.t \notin {"Option", "Default"} => sql_type.t = "NotNull"

\* C7 amended: to_sql(Option(T)) is nullable for every T, and to_sql(T) is
\* NotNull for every T whose outermost constructor is none of Option, Default
\* and Null; to_sql(Null) is the nullable NullByteArray.
C7_NullabilityDualityButNull ==
    sql_type # None =>
        /\ rust_type.t = "Option" => sql_type.t # "NotNull"
        /\ rust_type.t \notin {"Option", "Default", "Null"} => sql_type.t = "NotNull"
        /\ rust_type.t = "Null" => sql_type = NullByteArray

\* an optional reference has been mapped: the foreign key without NotNull
C7_Witness ==
    /\ rust_type = ROption(RComplex(City, None))
    /\ sql_type = References(City, FOREIGN_KEY_DEFAULT_COLUMN, Cascade, Cascade)

(***************************************************************************)
(* The name mangler as a state machine: a name is given; it is mangled as  *)
(* a definition name, once and again, and as a column name; and a          *)
(* definition of that name, with a field of that name, is converted.       *)
(***************************************************************************)
\* the greatest length of the names given
MaxNameLen == 66

\* the greatest number of repetitions of the word a name given starts with
MaxLead == 6

NameWords ==
    { <<"a">>, <<"B">>, <<"_">>, <<"T","h","e">>, <<"Q","U","i","c","k">> }

\* names about as long as the limit: a word repeated, then another repeated
LongNames ==
    {x \in {Repeat(w[1], n[1]) \o Repeat(w[2], n[2]) :
                w \in NameWords \X NameWords,
                n \in (0..MaxLead) \X (0..MaxNameLen)} :
        /\ Len(x) >= TYPENAME_LENGTH_LIMIT_PSQL - 2
        /\ Len(x) <= MaxNameLen}

\* the definition bodies given under a long name: an enum, a struct with a
\* reference and a list, and a tuple struct
NameBodies ==
    { PlainEnum(<<<<"E","s","s","l","i","n","g","e","n">>,
                  <<"S","t","u","t","t","g","a","r","t">>>>),
      Struct(<<Field(<<"n","a","m","e">>, Utf8String),
               Field(<<"b","i","r","t","h">>, RComplex(City, None)),
               Field(<<"l","i","s","t","_","o","f">>,
                     RVec(RComplex(City, None), "Any", "Keep"))>>),
      TupleStruct(Utf8String) }

InitName ==
    /\ NoWriter
    /\ given_name \in LongNames
    /\ mangled = <<>>
    /\ column_name = <<>>
    /\ rust_model \in {<<Definition(given_name, rust)>> : rust \in NameBodies}
    /\ definitions = <<>>
    /\ depth = EmptyMap
    /\ pc = "convert"
    /\ i = 1
    /\ rust_type = None
    /\ sql_type = None
    /\ back = None

\* Self::sql_definition_name(name), of the name given and then of its result
SqlDefinitionName ==
    /\ Len(mangled) < 2
    /\ mangled' = Append(mangled,
                         sql_definition_name(IF mangled = <<>> THEN given_name
                                             ELSE mangled[Len(mangled)]))
    /\ UNCHANGED <<rust_model, definitions, depth, pc, i, rust_type, sql_type, back,
                   given_name, column_name, writer_vars>>

NextName == SqlDefinitionName \/ DefinitionToSql

SpecName == InitName /\ [][NextName]_vars

\* C11: the result of sql_definition_name for a name longer than the limit
\* of 63 is no longer than the limit, and so is the name of every definition
\* of the output: tables, join tables, indexes, DelChilds_ functions and
\* SilentlyPreventAnyDeleteOn guards.
C11_NameLengthBound ==
    /\ (mangled # <<>> /\ Len(given_name) > TYPENAME_LENGTH_LIMIT_PSQL)
            => Len(mangled[1]) <= TYPENAME_LENGTH_LIMIT_PSQL
    /\ \A k \in Positions : Len(definitions[k].name) <= TYPENAME_LENGTH_LIMIT_PSQL

\* a name longer than the limit has been shortened to less than the limit
\* and the struct of that name has been converted: the output holds its
\* table, an index and a function
C11_Witness ==
    /\ Len(given_name) > TYPENAME_LENGTH_LIMIT_PSQL
    /\ mangled # <<>>
    /\ Len(mangled[1]) < TYPENAME_LENGTH_LIMIT_PSQL
    /\ rust_model[1].value.t = "Struct"
    /\ i = 2
    /\ definitions[1].name = mangled[1]
    /\ \E k \in Positions : definitions[k].value.t = "Index"
    /\ \E k \in Positions : definitions[k].value.t = "AbandonChildrenFunction"

\* C12: sql_definition_name is idempotent: applied to its own result it
\* yields that result.
C12_ManglingIdempotent == Len(mangled) = 2 => mangled[2] = mangled[1]

\* a name has been shortened, by dropping lower-case characters and cutting
\* at the limit, and the result has been mangled again
C12_Witness ==
    /\ Len(mangled) = 2
    /\ mangled[1] # given_name
    /\ Len(mangled[1]) = TYPENAME_LENGTH_LIMIT_PSQL
    /\ \E k \in 1..Len(given_name) : is_ascii_lowercase(given_name[k])

(***************************************************************************)
(* The column names: a field name is given; it is mangled as a column      *)
(* name, and a struct with a field of that name is converted.              *)
(***************************************************************************)
\* the greatest length of the field names made of the characters of the key
MaxKeyLen == 3

KeyChars == {"i", "d", "I", "D", " ", "_"}

RECURSIVE KeyLike(_)
KeyLike(len) ==
    IF len = 0 THEN {<<>>}
    ELSE LET shorter == KeyLike(len - 1)
         IN  shorter \cup {Append(n, c) : n \in shorter, c \in KeyChars}

\* field names like and unlike the key column
FieldNames ==
    (KeyLike(MaxKeyLen) \ {<<>>}) \cup
    { <<"n","a","m","e">>, <<"D","e","a","d","S","i","n","c","e">>,
      <<"l","i","s","t","-","o","f">>, <<"i","d","e","n","t","i","t","y">> }

InitColumn ==
    /\ NoWriter
    /\ given_name \in FieldNames
    /\ mangled = <<>>
    /\ column_name = <<>>
    /\ rust_model \in
          { <<Definition(Person, Struct(<<Field(first, Utf8String),
                                          Field(given_name, type)>>))>> :
                first \in {<<"n","a","m","e">>, FOREIGN_KEY_DEFAULT_COLUMN} \ {given_name},
                type \in {Utf8String, RComplex(City, None)} }
    /\ definitions = <<>>
    /\ depth = EmptyMap
    /\ pc = "convert"
    /\ i = 1
    /\ rust_type = None
    /\ sql_type = None
    /\ back = None

\* Self::sql_column_name(name)
SqlColumnName ==
    /\ column_name = <<>>
    /\ column_name' = <<sql_column_name(given_name)>>
    /\ UNCHANGED <<rust_model, definitions, depth, pc, i, rust_type, sql_type, back,
                   given_name, mangled, writer_vars>>

NextColumn == SqlColumnName \/ DefinitionToSql

SpecColumn == InitColumn /\ [][NextColumn]_vars

\* the name is 'id' in any case between any number of blanks
IsKeyName(n) ==
    \E a, b \in 0..Len(n) :
        /\ a + 2 + b = Len(n)
        /\ \A k \in 1..a : n[k] = " "
        /\ \A k \in (a + 3)..Len(n) : n[k] = " "
        /\ n[a + 1] \in {"i", "I"}
        /\ n[a + 2] \in {"d", "D"}

\* C13: sql_column_name of a name equal to 'id' case-insensitively after
\* trimming is the module-case name with '_' appended, and of any other name
\* the module-case name; the table of a struct with a field named 'id' has
\* the key column 'id' (Serial, primary key) first and the column 'id_', not
\* primary key, for the field.
C13_ReservedKeyColumnClash ==
    /\ column_name # <<>> =>
          column_name[1] = IF IsKeyName(given_name)
                           THEN rust_module_name(given_name) \o <<"_">>
                           ELSE rust_module_name(given_name)
    /\ (i = 2 /\ given_name = FOREIGN_KEY_DEFAULT_COLUMN) =>
          LET columns == definitions[1].value.columns
          IN  /\ columns[1] = Column(<<"i","d">>, Serial, TRUE)
              /\ columns[3].name = <<"i","d","_">>
              /\ ~columns[3].primary_key
              /\ PrimaryKeys(definitions[1].value) = {1}

\* the field name 'id' has been mangled to 'id_' and the struct with the
\* field of that name has been converted
C13_Witness ==
    /\ given_name = <<"i","d">>
    /\ column_name = <<<<"i","d","_">>>>
    /\ i = 2
    /\ Len(definitions[1].value.columns) = 3
    /\ definitions[1].value.columns[3].name = <<"i","d","_">>

(***************************************************************************)
(* The table synthesis over the field types: a model of one definition is  *)
(* given, a tuple struct, a struct, a data enum or an enum, its field of   *)
(* any of the types below, and is converted.                               *)
(***************************************************************************)
\* the types the wrappers are applied to
FieldBaseTypes ==
    { RInt("U8", Range_inclusive(Num("0"), Num("u8::MAX"))),
      RInt("U32", Range_inclusive(Num("0"), Num("u32::MAX"))),
      RBool, RNull, RString("Any", "Utf8"), RVecU8("Any"), RBitVec("Any"),
      RComplex(City, None), RComplex(Person, DEFAULT_UTF8_STRING) }

RECURSIVE FieldTypes(_)
FieldTypes(nest) ==
    IF nest = 0 THEN FieldBaseTypes
    ELSE LET inner == FieldTypes(nest - 1)
         IN  inner \cup {ROption(r) : r \in inner}
                   \cup {RVec(r, "Any", "Keep") : r \in inner}
                   \cup {RDefault(r, "literal") : r \in inner}

\* a name of 64 characters
OverlongName == LongName \o <<"E","s">>

FieldBodies ==
    { PlainEnum(<<<<"E","s","s","l","i","n","g","e","n">>,
                  <<"S","t","u","t","t","g","a","r","t">>>>) }
    \cup {TupleStruct(type) : type \in FieldTypes(MaxNest)}
    \cup {Struct(<<Field(<<"n","a","m","e">>, Utf8String),
                   Field(<<"l","i","s","t","_","o","f">>, type)>>) :
            type \in FieldTypes(MaxNest)}
    \cup {DataEnum(<<Field(<<"D","e","a","d","S","i","n","c","e">>, Utf8String),
                     Field(<<"A","l","i","v","e">>, type)>>) :
            type \in FieldTypes(MaxNest)}

InitTable ==
    /\ NoWriter
    /\ rust_model \in {<<Definition(name, rust)>> :
                          name \in {Person, LongName, OverlongName},
                          rust \in FieldBodies}
    /\ definitions = <<>>
    /\ depth = EmptyMap
    /\ pc = "convert"
    /\ i = 1
    /\ rust_type = None
    /\ sql_type = None
    /\ back = None
    /\ given_name = <<>>
    /\ mangled = <<>>
    /\ column_name = <<>>

SpecTable == InitTable /\ [][Next]_vars

\* the types of the fields of a definition that a join table is made for
ListTypes(rust) ==
    CASE rust.t = "Struct" ->
            LET lists == SelectSeq(rust.fields, IsList)
            IN  [k \in 1..Len(lists) |-> lists[k].type]
      [] rust.t = "TupleStruct" -> <<rust.type>>
      [] OTHER -> <<>>

\* the element type of a list type, and a type that is no list
ElementType(type) == IF is_vec(type) THEN as_no_option(type).inner ELSE type

\* the columns and the constraint of the join table of owner with the value
\* column typed sql
JoinTable(owner, sql) ==
    Table(<<Column(TUPLE_LIST_ENTRY_PARENT_COLUMN,
                   NotNull(References(owner, FOREIGN_KEY_DEFAULT_COLUMN, Cascade, Cascade)),
                   FALSE),
            Column(TUPLE_LIST_ENTRY_VALUE_COLUMN, sql, FALSE)>>,
          <<CombinedPrimaryKey(<<TUPLE_LIST_ENTRY_PARENT_COLUMN,
                                 TUPLE_LIST_ENTRY_VALUE_COLUMN>>)>>)

\* the tables appended behind the first are the join tables of the list
\* types of the definition given, the value column of each typed by
\* to_sql of ValueType of the list type
JoinTableShape(ValueType(_)) ==
    DefinitionToSql =>
        LET types == ListTypes(rust_model[i].value)
            tables == SelectSeq(Tail(Appended), IsTable)
        IN  /\ Len(tables) = Len(types)
            /\ \A k \in 1..Len(types) :
                  tables[k].value = JoinTable(Appended[1].name, to_sql(ValueType(types[k])))

Converted == pc # "convert" \/ i > Len(rust_model)

ListEntry(table) == table \o <<"L","i","s","t","E","n","t","r","y">>

ShortenedListEntry(table) == sql_definition_name(ListEntry(table))

Unshortened(name) == name

\* the output for the tuple struct given holds one table of the name
\* OwnerName of the name given, its only column the key column, without
\* constraint, and one more table, the join table named EntryName of the
\* owner, holding the wrapped value
TupleStructSynthesis(OwnerName(_), EntryName(_)) ==
    (Converted /\ rust_model[1].value.t = "TupleStruct") =>
        LET owner == OwnerName(rust_model[1].name)
            tables == {k \in Positions : IsTable(definitions[k])}
            owners == {k \in tables : definitions[k].name = owner}
        IN  /\ Cardinality(owners) = 1
            /\ \A k \in owners :
                  definitions[k].value =
                      Table(<<Column(FOREIGN_KEY_DEFAULT_COLUMN, Serial, TRUE)>>, <<>>)
            /\ Cardinality(tables \ owners) = 1
            /\ \A k \in tables \ owners :
                  /\ definitions[k].name = EntryName(owner)
                  /\ definitions[k].value =
                         JoinTable(owner, to_sql(as_inner_type(rust_model[1].value.type)))

\* C15 as stated: for a tuple struct named N wrapping any type the output
\* holds a table N whose only column is the key column 'id' (Serial, primary
\* key), without constraints, and exactly one join table, named
\* N + 'ListEntry', holding the wrapped value.
C15_TupleStructSynthesis == TupleStructSynthesis(Unshortened, ListEntry)

\* C15 amended: the table is named sql_definition_name(N), which is N of at
\* most 63 characters and N shortened otherwise, and the join table is named
\* sql_definition_name of that name + 'ListEntry'.  The rest is as stated.
C15_TupleStructSynthesisShortenedNames ==
    TupleStructSynthesis(sql_definition_name, ShortenedListEntry)

\* the tuple struct of a string under the name of 62 characters has been
\* converted and ordered: the name of its join table is shortened
C15_Witness ==
    /\ pc = "done"
    /\ rust_model[1] = Definition(LongName, TupleStruct(Utf8String))
    /\ \E k \in Positions :
          /\ IsTable(definitions[k])
          /\ definitions[k].name = ShortenedListEntry(LongName)
          /\ definitions[k].name # ListEntry(LongName)
          /\ definitions[k].value.columns[2].sql = NotNull(Text)

GuardName(name) ==
    <<"S","i","l","e","n","t","l","y","P","r","e","v","e","n","t","A","n","y",
      "D","e","l","e","t","e","O","n">> \o name

ShortenedGuardName(name) == sql_definition_name(GuardName(name))

\* the output for the enum given is the Enum named OwnerName of the name
\* given, of the variants given, and then the guard of it named Guard of it
PlainEnumSynthesis(OwnerName(_), Guard(_)) ==
    (Converted /\ rust_model[1].value.t = "Enum") =>
        LET owner == OwnerName(rust_model[1].name)
        IN  definitions =
                <<Definition(owner, Enum(rust_model[1].value.variants)),
                  Definition(Guard(owner), SilentlyPreventAnyDelete(owner))>>

\* C16 as stated: a plain enum named N compiles to exactly two definitions,
\* Enum(N) of the variant labels in declared order and then
\* SilentlyPreventAnyDelete(N) named 'SilentlyPreventAnyDeleteOn' + N; no
\* table and no index.
C16_PlainEnumSynthesis == PlainEnumSynthesis(Unshortened, GuardName)

\* C16 amended: the enum is named sql_definition_name(N) and the guard is
\* named sql_definition_name('SilentlyPreventAnyDeleteOn' + that name), the
\* names shortened when longer than 63 characters.  The rest is as stated.
C16_PlainEnumSynthesisShortenedNames ==
    PlainEnumSynthesis(sql_definition_name, ShortenedGuardName)

\* the enum under the name of 62 characters has been converted and ordered:
\* the name of the guard is shortened
C16_Witness ==
    /\ pc = "done"
    /\ rust_model[1].name = LongName
    /\ rust_model[1].value.t = "Enum"
    /\ Len(definitions) = 2
    /\ definitions[2].value.t = "SilentlyPreventAnyDelete"
    /\ definitions[2].name # GuardName(LongName)

\* the column type C17 names for an integer field type
WidthOf(rust) ==
    CASE rust.t \in {"U8", "I8", "I16"} -> SmallInt
      [] rust.t = "U16" ->
            IF rust.range.max <= Num("i16::MAX") THEN SmallInt ELSE Integer
      [] rust.t = "I32" -> Integer
      [] rust.t = "U32" ->
            IF rust.range.max <= Num("i32::MAX") THEN Integer ELSE BigInt
      [] rust.t \in {"U64", "I64"} -> BigInt

\* C17: to_sql maps U8, I8 and I16 to SmallInt, U16 to SmallInt when its
\* upper bound is at most 32767 and to Integer otherwise, I32 to Integer, U32
\* to Integer when its upper bound is at most 2^31-1 and to BigInt otherwise,
\* U64 and I64 to BigInt, each wrapped NotNull.
C17_IntegerWidthMapping ==
    (rust_type.t \in IntTags /\ sql_type # None) =>
        sql_type = NotNull(WidthOf(rust_type))

\* a U32 whose upper bound is 2^31 has been mapped to BigInt
C17_Witness ==
    /\ rust_type = RInt("U32", Range_inclusive(Num("0"), Num("i32::MAX+1")))
    /\ sql_type = NotNull(BigInt)

\* the field types of C18: Bool, String(Any, Utf8), VecU8(Any) and
\* Complex(name, None) under the wrappers Option and Vec(_, Any, Keep)
RECURSIVE IsNonIntegerType(_)
IsNonIntegerType(rust) ==
    CASE rust.t = "Bool" -> TRUE
      [] rust.t = "String" -> rust.size = "Any" /\ rust.charset = "Utf8"
      [] rust.t = "VecU8" -> rust.size = "Any"
      [] rust.t = "Complex" -> rust.tag = None
      [] rust.t = "Option" -> IsNonIntegerType(rust.inner)
      [] rust.t = "Vec" ->
            /\ rust.size = "Any"
            /\ rust.ordering = "Keep"
            /\ IsNonIntegerType(rust.inner)
      [] OTHER -> FALSE

\* an Option directly around an Option occurs in the type
RECURSIVE HasOptionOfOption(_)
HasOptionOfOption(rust) ==
    CASE rust.t = "Option" ->
            rust.inner.t = "Option" \/ HasOptionOfOption(rust.inner)
      [] rust.t = "Vec" -> HasOptionOfOption(rust.inner)
      [] OTHER -> FALSE

\* the type with every Option directly around an Option removed
RECURSIVE OptionsCollapsed(_)
OptionsCollapsed(rust) ==
    CASE rust.t = "Option" ->
            IF rust.inner.t = "Option" THEN OptionsCollapsed(rust.inner)
            ELSE ROption(OptionsCollapsed(rust.inner))
      [] rust.t = "Vec" -> RVec(OptionsCollapsed(rust.inner), rust.size, rust.ordering)
      [] OTHER -> rust

\* C18 as stated: for every field type t built from Bool, String(Any, Utf8),
\* VecU8(Any), Complex(name, None) and the wrappers Option and
\* Vec(_, Any, Keep) at any nesting, to_rust(to_sql(t)) = t.
C18_RoundTripIdentity ==
    (IsNonIntegerType(rust_type) /\ back # None) => back = rust_type

\* C18 amended: for every such t, to_rust(to_sql(t)) is t with every Option
\* directly around an Option removed: it is t exactly when no Option directly
\* wraps an Option in t.
C18_RoundTripIdentityButOptionOfOption ==
    (IsNonIntegerType(rust_type) /\ back # None) =>
        /\ back = OptionsCollapsed(rust_type)
        /\ back = rust_type <=> ~HasOptionOfOption(rust_type)

\* the optional list of strings has been mapped and mapped back to itself
C18_Witness ==
    /\ rust_type = ROption(RVec(RString("Any", "Utf8"), "Any", "Keep"))
    /\ sql_type = Array(NotNull(Text))
    /\ back = rust_type

(***************************************************************************)
(* Claims about references that name no definition, and about the final    *)
(* order                                                                   *)
(***************************************************************************)
\* the column is a foreign key naming no definition of the list
IsDangling(defs, column) ==
    /\ as_nullable(column.sql).t = "References"
    /\ \A k \in 1..Len(defs) : defs[k].name # as_nullable(column.sql).table

\* the positions of the tables holding a foreign key that names no definition
DanglingTables(defs) ==
    {a \in 1..Len(defs) :
        /\ defs[a].value.t = "Table"
        /\ \E c \in 1..Len(defs[a].value.columns) :
              IsDangling(defs, defs[a].value.columns[c])}

\* the definitions with every foreign key that names no definition replaced
\* by a column of text
Undangled(defs) ==
    [a \in 1..Len(defs) |->
        IF defs[a].value.t # "Table" THEN defs[a]
        ELSE Definition(defs[a].name,
                Table([c \in 1..Len(defs[a].value.columns) |->
                          IF IsDangling(defs, defs[a].value.columns[c])
                          THEN Column(defs[a].value.columns[c].name, Text,
                                      defs[a].value.columns[c].primary_key)
                          ELSE defs[a].value.columns[c]],
                      defs[a].value.constraints))]

\* the depths the walks from every definition from k on leave
RECURSIVE WalkedFrom(_, _, _)
WalkedFrom(defs, k, depths) ==
    IF k > Len(defs) THEN depths
    ELSE LET r == walk_graph(defs, k, depths, 0, 1)
         IN  IF r.ok THEN WalkedFrom(defs, k + 1, r.depths) ELSE depths

\* the definitions synthesized from the first k definitions given
RECURSIVE Synthesized(_)
Synthesized(k) ==
    IF k = 0 THEN <<>>
    ELSE definition_to_sql(sql_definition_name(rust_model[k].name),
                           rust_model[k].value, Synthesized(k - 1))

Occurrences(seq, x) == Cardinality({k \in 1..Len(seq) : seq[k] = x})

IsPermutation(s, t) ==
    /\ Len(s) = Len(t)
    /\ \A k \in 1..Len(s) : Occurrences(s, s[k]) = Occurrences(t, s[k])

\* C19: when a table column is a foreign key naming a definition absent from
\* the list, the conversion does not fail for it (the ordering pass is only
\* ever aborted on a cycle among the definitions present), the depths the
\* walks leave are the depths they leave without that reference, and the output
\* holds every definition synthesized, unchanged: the referencing table, an
\* index and an AbandonChildren function on it among them.
C19_DanglingReferenceIsNoError ==
    (Converted /\ pc # "convert" /\ DanglingTables(definitions) # {}) =>
        /\ pc = "aborted" => HasCycle(definitions)
        /\ (pc = "walk" /\ i > Len(definitions)) =>
              depth = WalkedFrom(Undangled(definitions), 1, EmptyMap)
        /\ IsPermutation(definitions, Synthesized(Len(rust_model)))
        /\ \A a \in DanglingTables(definitions) :
              \A t \in {"Index", "AbandonChildrenFunction"} :
                  \E k \in Positions :
                      /\ definitions[k].value.t = t
                      /\ definitions[k].value.table = definitions[a].name

\* the struct Person of the tests, born in a City that is not defined, has
\* been converted and ordered: the table stands first and no depth is kept
\* for City
C19_Witness ==
    /\ pc = "done"
    /\ Len(rust_model) = 1
    /\ rust_model[1].name = Person
    /\ DanglingTables(definitions) = {1}
    /\ definitions[1].name = Person
    /\ as_nullable(definitions[1].value.columns[3].sql).table = City
    /\ City \notin DOMAIN depth

\* the definitions of the sequence whose name has the depth d
OfDepth(seq, d) ==
    LET HasDepth(def) == DepthOf(depth, def.name) = d
    IN  SelectSeq(seq, HasDepth)

\* C20: the list convert_rust_to_sql returns is sorted by non-increasing
\* computed depth, and the definitions of equal depth keep the relative order
\* in which they were synthesized.
C20_SortedByDepthAndStable ==
    pc = "done" =>
        /\ \A a, b \in Positions :
              a < b => ComputedDepth(a) >= ComputedDepth(b)
        /\ \A d \in 0..Len(definitions) :
              OfDepth(definitions, d) = OfDepth(Synthesized(Len(rust_model)), d)

\* a model of two definitions has been converted and ordered: the output
\* holds definitions of three depths, several of them of depth 0, and a
\* definition synthesized later stands before one synthesized earlier
C20_Witness ==
    /\ pc = "done"
    /\ Len(rust_model) = 2
    /\ Len(OfDepth(definitions, 0)) >= 3
    /\ OfDepth(definitions, 1) # <<>>
    /\ OfDepth(definitions, 2) # <<>>
    /\ definitions # Synthesized(Len(rust_model))

(***************************************************************************)
(* Claims about the output as a whole                                      *)
(***************************************************************************)
\* C21: a definition appended during synthesis is never altered or removed:
\* each step of the synthesis only appends to the list, the definitions
\* before being left as they are, the ordering pass only permutes the list,
\* and no other step touches it.
C21_AppendOnlyThenPermuted ==
    [][/\ DefinitionToSql =>
              /\ Len(definitions') >= Len(definitions)
              /\ SubSeq(definitions', 1, Len(definitions)) = definitions
       /\ SortByKey => IsPermutation(definitions, definitions')
       /\ ~(DefinitionToSql \/ SortByKey) => definitions' = definitions]_vars

\* a model of two definitions has been converted and ordered: the output is
\* the list synthesized in another order
C21_Witness ==
    /\ pc = "done"
    /\ Len(rust_model) = 2
    /\ IsPermutation(definitions, Synthesized(Len(rust_model)))
    /\ definitions[1] # Synthesized(Len(rust_model))[1]

(***************************************************************************)
(* Claims about the name mangler as a function                             *)
(***************************************************************************)
\* the characters of the first k characters of the name that are no ASCII
\* lower-case letters
Retained(name, k) ==
    LET Kept(c) == ~is_ascii_lowercase(c)
    IN  SelectSeq(SubSeq(name, 1, k), Kept)

\* the positions of the retained characters after which the characters
\* retained so far and the untouched remainder fit in the limit
FitPoints(name) ==
    {k \in 1..Len(name) :
        /\ ~is_ascii_lowercase(name[k])
        /\ Len(Retained(name, k)) + (Len(name) - k) <= TYPENAME_LENGTH_LIMIT_PSQL}

\* the reference algorithm of C22
ReferenceName(name) ==
    IF Len(name) <= TYPENAME_LENGTH_LIMIT_PSQL THEN name
    ELSE IF FitPoints(name) # {}
         THEN LET k == CHOOSE p \in FitPoints(name) :
                          \A q \in FitPoints(name) : p <= q
              IN  Retained(name, k) \o SubSeq(name, k + 1, Len(name))
    ELSE LET all == Retained(name, Len(name))
         IN  IF Len(all) > TYPENAME_LENGTH_LIMIT_PSQL
             THEN SubSeq(all, 1, TYPENAME_LENGTH_LIMIT_PSQL)
             ELSE all

\* C22: sql_definition_name equals the reference algorithm: a name of at most
\* 63 characters is returned unchanged; of a longer name the lower-case
\* characters are dropped from the left until, at a retained character, the
\* characters retained and the untouched remainder fit in 63, and the result
\* is the former followed by the latter; if there is no such point the result
\* is the first 63 retained characters, or all of them when fewer.
C22_EqualsReferenceAlgorithm ==
    mangled # <<>> => mangled[1] = ReferenceName(given_name)

\* a name longer than the limit has been shortened at a point of fit that is
\* not its first retained character: lower-case characters are dropped from
\* the left and lower-case characters of the remainder are kept
C22_Witness ==
    /\ mangled # <<>>
    /\ Len(given_name) > TYPENAME_LENGTH_LIMIT_PSQL
    /\ FitPoints(given_name) # {}
    /\ \A p \in FitPoints(given_name) : Len(Retained(given_name, p)) >= 2
    /\ Len(mangled[1]) < Len(given_name)
    /\ \E k \in 1..Len(mangled[1]) : is_ascii_lowercase(mangled[1][k])

\* C28 as stated: sql_definition_name never returns the empty string for a
\* non-empty name, a name longer than 63 characters included.
C28_NeverEmpty ==
    (mangled # <<>> /\ given_name # <<>>) => mangled[1] # <<>>

(***************************************************************************)
(* Claims about the functions and indexes of the tables                    *)
(***************************************************************************)
\* the column is, nullability stripped, a foreign key
IsForeignKey(column) == as_nullable(column.sql).t = "References"

\* an entry (column, target_table, target_column) for each foreign-key column
\* of the table, in column order
ForeignKeys(table) ==
    LET keys == SelectSeq(table.columns, IsForeignKey)
    IN  [k \in 1..Len(keys) |->
            <<keys[k].name, as_nullable(keys[k].sql).table,
              as_nullable(keys[k].sql).column>>]

\* the entries of the foreign keys but the one of the column 'list'
IsNoParentEntry(entry) == entry[1] # TUPLE_LIST_ENTRY_PARENT_COLUMN

ChildKeys(table) == SelectSeq(ForeignKeys(table), IsNoParentEntry)

DelChilds(table) == <<"D","e","l","C","h","i","l","d","s","_">> \o table

ShortenedDelChilds(table) == sql_definition_name(DelChilds(table))

\* C23 as stated: for every table of the output that holds one or more
\* foreign-key columns, join tables with their column 'list' included, an
\* AbandonChildrenFunction named 'DelChilds_' + table is emitted, recording
\* one entry (column, target_table, target_column) for each foreign-key
\* column of the table, in column order.
C23_AbandonChildrenCompleteness ==
    Converted =>
        \A k \in Positions :
            (IsTable(definitions[k]) /\ ForeignKeys(definitions[k].value) # <<>>) =>
                \E j \in Positions :
                    definitions[j] =
                        Definition(DelChilds(definitions[k].name),
                            AbandonChildrenFunction(definitions[k].name,
                                ForeignKeys(definitions[k].value)))

\* C23 amended: the function of a table records its foreign-key columns but
\* the column 'list' of a join table, which refers to the owner: a table has
\* an AbandonChildrenFunction exactly when it holds such a column, the
\* function records one entry for each, in column order, and it is named
\* sql_definition_name('DelChilds_' + table), shortened when longer than 63
\* characters.  A join table whose value column is no foreign key has none.
C23_AbandonChildrenOfChildKeys ==
    Converted =>
        \A k \in Positions :
            IsTable(definitions[k]) =>
                LET table == definitions[k].name
                    expected == ChildKeys(definitions[k].value)
                    functions ==
                        {j \in Positions :
                            /\ definitions[j].value.t = "AbandonChildrenFunction"
                            /\ definitions[j].value.table = table}
                IN  /\ expected = <<>> => functions = {}
                    /\ expected # <<>> =>
                          /\ Cardinality(functions) = 1
                          /\ \A j \in functions :
                                definitions[j] =
                                    Definition(ShortenedDelChilds(table),
                                        AbandonChildrenFunction(table, expected))

\* a tuple struct wrapping a list of references has been converted: its join
\* table holds two foreign keys and its function records the column 'value'
\* only
C23_Witness ==
    /\ Converted
    /\ rust_model[1].value.t = "TupleStruct"
    /\ \E k, j \in Positions :
          /\ IsJoinTable(definitions[k])
          /\ Len(ForeignKeys(definitions[k].value)) = 2
          /\ definitions[j].value.t = "AbandonChildrenFunction"
          /\ definitions[j].value.table = definitions[k].name
          /\ Len(definitions[j].value.children) = 1
          /\ definitions[j].value.children[1][1] = TUPLE_LIST_ENTRY_VALUE_COLUMN

IndexName(table, column) == table \o <<"_","I","n","d","e","x","_">> \o column

ShortenedIndexName(table, column) == sql_definition_name(IndexName(table, column))

\* for every foreign-key column of every table of the output the output
\* holds the Index on (table, [column]) under the name Name(table, column)
IndexCompleteness(Name(_, _)) ==
    Converted =>
        \A k \in Positions :
            IsTable(definitions[k]) =>
                \A c \in 1..Len(definitions[k].value.columns) :
                    LET table == definitions[k].name
                        column == definitions[k].value.columns[c]
                    IN  IsForeignKey(column) =>
                            \E j \in Positions :
                                definitions[j] =
                                    Definition(Name(table, column.name),
                                               Index(table, <<column.name>>))

\* C24 as stated: for every column of every output table that is, nullability
\* stripped, a foreign key, the output holds an Index on (table, [column])
\* named <table>_Index_<column>.
C24_IndexCompleteness == IndexCompleteness(IndexName)

\* C24 amended: the Index is named
\* sql_definition_name(<table>_Index_<column>), which is that name when it
\* has at most 63 characters and the name shortened otherwise.
C24_IndexCompletenessShortenedName == IndexCompleteness(ShortenedIndexName)

\* a data enum of the name of 62 characters with an optional reference has
\* been converted: the index of the column is named by a shortened name
C24_Witness ==
    /\ Converted
    /\ rust_model[1].name = LongName
    /\ rust_model[1].value.t = "DataEnum"
    /\ \E k, j \in Positions :
          /\ IsTable(definitions[k])
          /\ \E c \in 1..Len(definitions[k].value.columns) :
                /\ IsForeignKey(definitions[k].value.columns[c])
                /\ definitions[j].value =
                       Index(definitions[k].name,
                             <<definitions[k].value.columns[c].name>>)
                /\ definitions[j].name #
                       IndexName(definitions[k].name,
                                 definitions[k].value.columns[c].name)

(***************************************************************************)
(* Claims about the names of the output                                    *)
(***************************************************************************)
\* the elements of the sequence are pairwise distinct
PairwiseDistinct(seq) ==
    \A a, b \in 1..Len(seq) : a # b => seq[a] # seq[b]

NamesOf(seq) == [k \in 1..Len(seq) |-> seq[k].name]

\* C26 as stated: in the table of a struct whose field names are pairwise
\* distinct the column names are pairwise distinct: the '_' given to a field
\* named 'id' collides with no other column.
C26_ColumnNamesDistinct ==
    (i = 2 /\ PairwiseDistinct(NamesOf(rust_model[1].value.fields))) =>
        PairwiseDistinct(NamesOf(definitions[1].value.columns))

\* C25 as stated: whenever the names of the definitions given are pairwise
\* distinct and of at most 63 characters each, the names of the definitions
\* of the output (tables, join tables, indexes, functions and guards) are
\* pairwise distinct.
C25_OutputNamesDistinct ==
    (/\ Converted
     /\ PairwiseDistinct(NamesOf(rust_model))
     /\ \A k \in 1..Len(rust_model) :
           Len(rust_model[k].name) <= TYPENAME_LENGTH_LIMIT_PSQL) =>
        PairwiseDistinct(NamesOf(definitions))

\* some table of the output named `table` holds a column named `column`
HoldsColumn(table, column) ==
    \E k \in Positions :
        /\ IsTable(definitions[k])
        /\ definitions[k].name = table
        /\ \E c \in 1..Len(definitions[k].value.columns) :
              definitions[k].value.columns[c].name = column

\* C27: in the output every Index(table, [column]) and every entry
\* (column, _, _) of an AbandonChildrenFunction(table, ...) names a table that
\* the output holds as a Table definition and a column of that table.
C27_AuxiliariesNameTheirTable ==
    Converted =>
        \A k \in Positions :
            LET value == definitions[k].value
            IN  /\ value.t = "Index" =>
                      \A c \in 1..Len(value.columns) :
                          HoldsColumn(value.table, value.columns[c])
                /\ value.t = "AbandonChildrenFunction" =>
                      \A c \in 1..Len(value.children) :
                          HoldsColumn(value.table, value.children[c][1])

\* a data enum with a variant that is an optional reference has been
\* converted: the output holds the index and the function of its column
C27_Witness ==
    /\ Converted
    /\ rust_model[1].value.t = "DataEnum"
    /\ rust_model[1].value.variants[2].type.t = "Option"
    /\ \E k, j \in Positions :
          /\ definitions[k].value.t = "Index"
          /\ definitions[j].value.t = "AbandonChildrenFunction"
          /\ definitions[k].value.table = definitions[j].value.table
          /\ definitions[k].value.columns = <<definitions[j].value.children[1][1]>>
          /\ HoldsColumn(definitions[k].value.table, definitions[k].value.columns[1])

(***************************************************************************)
(* The PrintlnWriter as a state machine.  The closure given to             *)
(* write_sequence and the write_value of the type given to write_opt are   *)
(* code of the caller: they make any calls on the writer and return Ok or  *)
(* Err.  The stack holds a frame for each call of                          *)
(* with_increased_indentation that has not returned, with the indentation  *)
(* its caller found.                                                       *)
(***************************************************************************)
\* how deep the calls nest and how many calls are made
MaxDepth == 3

MaxCalls == 5

\* a variant of decreased that leaves the counter
decreased_not(n) == n

\* self.0 += 1 and self.0 -= 1
increased(n) == n + 1

decreased(n) == n - 1

Frame(kind, before, phase) == [kind |-> kind, before |-> before, phase |-> phase]

Returned(call, before, after, result) ==
    [t |-> "Some", call |-> call, before |-> before, after |-> after,
     result |-> result]

Top == stack[Len(stack)]

Popped == SubSeq(stack, 1, Len(stack) - 1)

\* the code running is code of the caller: the caller of the writer, a
\* closure given to write_sequence or the write_value of write_opt
InCallerCode ==
    IF stack = <<>> THEN TRUE ELSE Top.kind \in {"write_sequence", "write_value"}

InitWriter ==
    /\ NoWriter
    /\ rust_model = NoModel
    /\ definitions = <<>>
    /\ depth = EmptyMap
    /\ pc = "write"
    /\ i = 0
    /\ rust_type = None
    /\ sql_type = None
    /\ back = None
    /\ given_name = <<>>
    /\ mangled = <<>>
    /\ column_name = <<>>

model_vars ==
    <<rust_model, definitions, depth, pc, i, rust_type, sql_type, back, name_vars>>

\* write_sequence up to the call of f: the line is printed and
\* with_increased_indentation calls the closure
WriteSequence ==
    /\ pc = "write"
    /\ InCallerCode
    /\ Len(stack) < MaxDepth
    /\ calls < MaxCalls
    /\ printed' = indentation
    /\ stack' = Append(stack, Frame("write_sequence", indentation, "body"))
    /\ indentation' = increased(indentation)
    /\ calls' = calls + 1
    /\ UNCHANGED <<returned, model_vars>>

\* write_opt of Some(value) up to the closure: 'Writing OPTIONAL' is printed
\* and with_increased_indentation calls the closure
WriteOptSome ==
    /\ pc = "write"
    /\ InCallerCode
    /\ Len(stack) + 1 < MaxDepth
    /\ calls < MaxCalls
    /\ printed' = indentation
    /\ stack' = Append(stack, Frame("write_opt", indentation, "some"))
    /\ indentation' = increased(indentation)
    /\ calls' = calls + 1
    /\ UNCHANGED <<returned, model_vars>>

\* the closure of write_opt for Some(value): 'Some' is printed and
\* with_increased_indentation calls T::write_value
WriteValue ==
    /\ pc = "write"
    /\ stack # <<>>
    /\ Top.kind = "write_opt"
    /\ Top.phase = "some"
    /\ printed' = indentation
    /\ stack' = Append(stack, Frame("write_value", indentation, "body"))
    /\ indentation' = increased(indentation)
    /\ UNCHANGED <<returned, calls, model_vars>>

\* write_opt of None: 'Writing OPTIONAL' is printed, and the closure, called
\* by with_increased_indentation, prints 'None' and returns Ok
WriteOptNone ==
    /\ pc = "write"
    /\ InCallerCode
    /\ Len(stack) < MaxDepth
    /\ calls < MaxCalls
    /\ printed' = increased(indentation)
    /\ indentation' = decreased(increased(indentation))
    /\ returned' = Returned("write_opt", indentation, indentation', "Ok")
    /\ calls' = calls + 1
    /\ UNCHANGED <<stack, model_vars>>

\* write_int: the line is printed and Ok returned
WriteInt ==
    /\ pc = "write"
    /\ InCallerCode
    /\ calls < MaxCalls
    /\ printed' = indentation
    /\ indentation' = indentation
    /\ returned' = Returned("write_int", indentation, indentation', "Ok")
    /\ calls' = calls + 1
    /\ UNCHANGED <<stack, model_vars>>

\* write_int_max: the line is printed and Ok returned
WriteIntMax ==
    /\ pc = "write"
    /\ InCallerCode
    /\ calls < MaxCalls
    /\ printed' = indentation
    /\ indentation' = indentation
    /\ returned' = Returned("write_int_max", indentation, indentation', "Ok")
    /\ calls' = calls + 1
    /\ UNCHANGED <<stack, model_vars>>

\* write_utf8string: the line is printed and Ok returned
WriteUtf8String ==
    /\ pc = "write"
    /\ InCallerCode
    /\ calls < MaxCalls
    /\ printed' = indentation
    /\ indentation' = indentation
    /\ returned' = Returned("write_utf8string", indentation, indentation', "Ok")
    /\ calls' = calls + 1
    /\ UNCHANGED <<stack, model_vars>>

\* the closure of write_sequence returns Ok or Err:
\* with_increased_indentation decreases the counter and write_sequence
\* returns what the closure returned
ReturnFromSequence ==
    /\ pc = "write"
    /\ stack # <<>>
    /\ Top.kind = "write_sequence"
    /\ \E result \in {"Ok", "Err"} :
          /\ indentation' = decreased(indentation)
          /\ stack' = Popped
          /\ returned' = Returned("write_sequence", Top.before, indentation', result)
    /\ UNCHANGED <<printed, calls, model_vars>>

\* T::write_value returns Ok or Err: the inner with_increased_indentation
\* decreases the counter and the closure of write_opt returns that result
ReturnFromValue ==
    /\ pc = "write"
    /\ stack # <<>>
    /\ Top.kind = "write_value"
    /\ \E result \in {"Ok", "Err"} :
          /\ indentation' = decreased(indentation)
          /\ stack' = Append(SubSeq(stack, 1, Len(stack) - 2),
                             Frame("write_opt", stack[Len(stack) - 1].before, result))
    /\ UNCHANGED <<returned, printed, calls, model_vars>>

\* the closure of write_opt has returned: with_increased_indentation
\* decreases the counter and write_opt returns that result
ReturnFromOpt ==
    /\ pc = "write"
    /\ stack # <<>>
    /\ Top.kind = "write_opt"
    /\ Top.phase \in {"Ok", "Err"}
    /\ indentation' = decreased(indentation)
    /\ stack' = Popped
    /\ returned' = Returned("write_opt", Top.before, indentation', Top.phase)
    /\ UNCHANGED <<printed, calls, model_vars>>

NextWriter ==
    \/ WriteSequence
    \/ WriteOptSome
    \/ WriteValue
    \/ WriteOptNone
    \/ WriteInt
    \/ WriteIntMax
    \/ WriteUtf8String
    \/ ReturnFromSequence
    \/ ReturnFromValue
    \/ ReturnFromOpt

SpecWriter == InitWriter /\ [][NextWriter]_vars

\* C29: the indentation of the PrintlnWriter is balanced: when a call of
\* write_sequence or write_opt has returned, with Ok or with Err, the counter
\* is what it was before the call; within calls nested k deep it is the
\* starting value plus k, and each frame was entered at its level; write_int,
\* write_int_max and write_utf8string leave the counter as it was.
C29_IndentationBalanced ==
    pc = "write" =>
        /\ indentation = Len(stack)
        /\ \A k \in 1..Len(stack) : stack[k].before = k - 1
        /\ returned # None => returned.after = returned.before

\* inside a sequence, an optional value has been written whose write_value
\* returned Err, and the call of write_opt has returned
C29_Witness ==
    /\ pc = "write"
    /\ Len(stack) = 1
    /\ Top.kind = "write_sequence"
    /\ returned # None
    /\ returned.call = "write_opt"
    /\ returned.result = "Err"
    /\ returned.before = 1
    /\ indentation = 1
    /\ printed = 2

====
